---- MODULE Spec2Model ----
(***************************************************************************)
(* Indb (src/src/indb.js): the cursor query executor behind select, count  *)
(* and remove, and the tokenized search, each run against a model of the   *)
(* IndexedDB transaction it opens.                                         *)
(*                                                                         *)
(* One table is modelled.  A record is [id, words]: id is the primary key  *)
(* and words is the array-valued field behind the multiEntry index         *)
(* "words" (one index entry per element).  An optional JavaScript value is *)
(* a set with at most one element: {} is undefined, {n} is the number n.   *)
(***************************************************************************)
EXTENDS Integers, Sequences, FiniteSets, TLC

\* Bounds of the model.
MaxKey == 2
MaxWord == 2
MaxOffset == 2
MaxLimit == 2
MaxQueryLen == 5
MaxField == 2
MaxBatch == 2
MaxWrites == 1

VARIABLES
    table,        \* committed contents of the object store
    store,        \* contents as seen inside the transaction of the call
    tsn,          \* the transaction: "none", "active", "committed", "aborted"
    requests,     \* requests placed against the transaction, not yet answered
    input,        \* the descriptor handed to query()
    source,       \* what query() iterates: "store", "words", or "null" before the call
    cursor,       \* <<>> (null) or <<entry>>: the entry the cursor is on
    count,        \* query(): let count
    data,         \* query(): let data
    advanceFlag,  \* query(): let advanceFlag
    promise,      \* the promise query() returned
    log,          \* history: what the call did, in order
    before,       \* history: the contents of the table when the call was made
    args,         \* search(): the arguments index, query, op
    words,        \* search(): let words = this.tokens(query)
    resultsArray, \* search(): the key lists of the lookups answered so far
    finalIds,     \* search(): let finalIds
    finalObjects, \* search(): the records fetched so far
    db,           \* the committed contents of every table, by name
    calls,        \* the calls of add, put, deleteMany, update, importData
    txs           \* the transactions those calls opened, in order of creation

\* The variables of query() and those of search().
queryVars == <<input, source, cursor, count, data, advanceFlag>>
searchVars == <<args, words, resultsArray, finalIds, finalObjects>>
\* The variables of the writing calls.
writeVars == <<db, calls, txs>>

vars == <<table, store, tsn, requests, input, source, cursor, count, data,
          advanceFlag, promise, log, before, args, words, resultsArray,
          finalIds, finalObjects, db, calls, txs>>

----------------------------------------------------------------------------
\* Records, tables and descriptors

Keys == 1..MaxKey
Words == 1..MaxWord

Records == [id : Keys, words : SUBSET Words]

\* Primary keys are unique within a table.
Tables ==
    {{[id |-> k, words |-> w[k]] : k \in present} :
        present \in SUBSET Keys, w \in [Keys -> SUBSET Words]}

\* The numbers a range can name: every key of the store and of the index.
Vals == Keys \cup Words

Opt(S) == {{}} \cup {{x} : x \in S}
Get(o) == CHOOSE x \in o : TRUE

\* input.value: undefined, a number, or an object with optional start/end.
Values ==
    {[type |-> "undefined", v |-> {}, start |-> {}, end |-> {}]}
    \cup {[type |-> "number", v |-> {n}, start |-> {}, end |-> {}] : n \in Vals}
    \cup [type : {"object"}, v : {{}}, start : Opt(Vals), end : Opt(Vals)]

IndexNames == {"words"}

Inputs ==
    [type : {"select", "count", "delete"},
     index : {"undefined", "words", "nope"},
     value : Values,
     offset : Opt(0..MaxOffset),
     limit : Opt(0..MaxLimit),
     direction : {"undefined", "next", "prev"}]

NoInput ==
    [type |-> "none", index |-> "undefined",
     value |-> [type |-> "undefined", v |-> {}, start |-> {}, end |-> {}],
     offset |-> {}, limit |-> {}, direction |-> "undefined"]

----------------------------------------------------------------------------
\* filter(value): the IDBKeyRange built from input.value

\* IDBKeyRange.bound(lower, upper) throws DataError when lower > upper.
filterThrows(value) ==
    /\ value.type = "object"
    /\ value.start # {} /\ value.end # {}
    /\ Get(value.start) > Get(value.end)

\* An IDBKeyRange: its bounds ({}: none) and their open flags.
KeyRange(kind, lower, upper, lowerOpen, upperOpen) ==
    [kind |-> kind, lower |-> lower, upper |-> upper,
     lowerOpen |-> lowerOpen, upperOpen |-> upperOpen]

\* A filter() that passes true for the open flags.
filterOpen(value) ==
    IF value.type = "undefined"
    THEN KeyRange("null", {}, {}, FALSE, FALSE)
    ELSE IF value.type = "number"
    THEN KeyRange("only", value.v, value.v, FALSE, FALSE)
    ELSE IF value.start # {} /\ value.end # {}
    THEN KeyRange("bound", value.start, value.end, TRUE, TRUE)
    ELSE IF value.start # {}
    THEN KeyRange("lowerBound", value.start, {}, TRUE, FALSE)
    ELSE IF value.end # {}
    THEN KeyRange("upperBound", {}, value.end, FALSE, TRUE)
    ELSE KeyRange("undefined", {}, {}, FALSE, FALSE)

filter(value) ==
    IF value.type = "undefined"
    THEN KeyRange("null", {}, {}, FALSE, FALSE)
    ELSE IF value.type = "number"
    THEN KeyRange("only", value.v, value.v, FALSE, FALSE)
    ELSE IF value.start # {} /\ value.end # {}
    THEN KeyRange("bound", value.start, value.end, FALSE, FALSE)
    ELSE IF value.start # {}
    THEN KeyRange("lowerBound", value.start, {}, FALSE, FALSE)
    ELSE IF value.end # {}
    THEN KeyRange("upperBound", {}, value.end, FALSE, FALSE)
    ELSE KeyRange("undefined", {}, {}, FALSE, FALSE)

\* A key is in a range when no bound excludes it; an open bound excludes the
\* bound itself.  A null or undefined query restricts nothing.
InRange(key, range) ==
    /\ \A l \in range.lower : IF range.lowerOpen THEN l < key ELSE l <= key
    /\ \A u \in range.upper : IF range.upperOpen THEN key < u ELSE key <= u

----------------------------------------------------------------------------
\* The iteration source: an object store or an index of it

\* The entries <<key, primary key>> of a source over given contents.  The
\* multiEntry index holds one entry per element of the words field.
Entries(src, contents) ==
    IF src = "words"
    THEN UNION {{<<w, r.id>> : w \in r.words} : r \in contents}
    ELSE {<<r.id, r.id>> : r \in contents}

\* Cursor order: by key, then by primary key; reversed for "prev".
Before(e, f, direction) ==
    IF direction = "prev"
    THEN e[1] > f[1] \/ (e[1] = f[1] /\ e[2] > f[2])
    ELSE e[1] < f[1] \/ (e[1] = f[1] /\ e[2] < f[2])

First(S, direction) ==
    CHOOSE e \in S : \A f \in S : f = e \/ Before(e, f, direction)

\* The entries in range a cursor at position pos (<<>>: not yet placed) has
\* still ahead of it.
Ahead(pos, src, contents, range, direction) ==
    {e \in Entries(src, contents) :
        /\ InRange(e[1], range)
        /\ pos # <<>> => Before(pos[1], e, direction)}

\* The position after stepping n entries forward: <<entry>>, or <<>> when the
\* source is exhausted first.
RECURSIVE Iterate(_, _, _, _, _, _)
Iterate(pos, n, src, contents, range, direction) ==
    LET S == Ahead(pos, src, contents, range, direction)
    IN  IF S = {} THEN <<>>
        ELSE IF n <= 1 THEN <<First(S, direction)>>
        ELSE Iterate(<<First(S, direction)>>, n - 1, src, contents, range, direction)

\* cursor.value: the record the cursor's entry refers to.
ValueAt(pos, contents) == CHOOSE r \in contents : r.id = pos[1][2]

----------------------------------------------------------------------------
\* The promise and the history

Pending == [state |-> "pending", value |-> <<>>, number |-> 0, reason |-> ""]

\* ok(v) and error(e): a promise settles once, later calls change nothing.
Resolve(p, value, number) ==
    IF p.state = "pending"
    THEN [state |-> "resolved", value |-> value, number |-> number, reason |-> ""]
    ELSE p

Reject(p, reason) ==
    IF p.state = "pending"
    THEN [state |-> "rejected", value |-> <<>>, number |-> 0, reason |-> reason]
    ELSE p

\* One step of the history: what was done, and on which entry <<key, id>>.
Ev(name, key, id) == [ev |-> name, key |-> key, id |-> id]

\* The tables of the database, and the calls that may be in flight together.
TableNames == {"T", "U"}
CallIds == {1, 2}

\* No writing call has been made.
NoCall == [op |-> "none", table |-> "T", id |-> 0, data |-> <<>>,
           overwrite |-> FALSE, pc |-> 0, phase |-> "none", promise |-> Pending]
WriteIdle ==
    /\ db = [t \in TableNames |-> {}]
    /\ calls = [c \in CallIds |-> NoCall]
    /\ txs = <<>>

\* search() has not been called.
NoArgs == [index |-> "undefined", query |-> [type |-> "other", chars |-> <<>>], op |-> {}]

----------------------------------------------------------------------------
Init ==
    /\ table \in Tables
    /\ store = table
    /\ before = table
    /\ tsn = "none"
    /\ requests = <<>>
    /\ input = NoInput
    /\ source = "null"
    /\ cursor = <<>>
    /\ count = 0
    /\ data = <<>>
    /\ advanceFlag = FALSE
    /\ promise = Pending
    /\ log = <<>>
    /\ args = NoArgs
    /\ words = <<>>
    /\ resultsArray = <<>>
    /\ finalIds = <<>>
    /\ finalObjects = <<>>
    /\ WriteIdle

Req(op, n) == [op |-> op, n |-> n]

\* query(input) up to the registration of the handlers: open the transaction,
\* pick the source, build the range and place the first request.
Query(d) ==
    /\ input' = d
    /\ tsn' = "active"
    /\ source' = IF d.index # "undefined" /\ d.index \in IndexNames
                 THEN d.index ELSE "store"
    /\ IF filterThrows(d.value)
       THEN /\ promise' = Reject(promise, "DataError")
            /\ requests' = <<>>
            /\ log' = Append(log, Ev("throw", 0, 0))
       ELSE /\ promise' = promise
            /\ requests' = <<Req(IF d.type = "count" THEN "count" ELSE "openCursor", 0)>>
            /\ log' = Append(log, Ev(IF d.type = "count" THEN "count" ELSE "openCursor", 0, 0))
    /\ UNCHANGED <<table, store, cursor, count, data, advanceFlag, before>>
    /\ UNCHANGED searchVars
    /\ UNCHANGED writeVars

\* A query() that always iterates forward.
directionIgnored == "next"

\* let direction = input.direction || "next"
direction == IF input.direction = "undefined" THEN "next" ELSE input.direction

range == filter(input.value)

\* ok(input.type == "delete" ? count : data)
okResult(p, c, d) ==
    IF input.type = "delete" THEN Resolve(p, <<>>, c) ELSE Resolve(p, d, 0)

\* A handler that never looks at advanceFlag, and one that reads it inverted.
skipPendingNoFlag == input.offset # {}
skipPendingInverted == input.offset # {} /\ advanceFlag

\* if (input.offset !== undefined && !advanceFlag)
skipPending == input.offset # {} /\ ~advanceFlag

\* A handler that takes an absent limit for 0: count >= (input.limit || 0).
limitReachedUndefZero(c) == c >= (IF input.limit = {} THEN 0 ELSE Get(input.limit))

\* if (input.limit !== undefined && count >= input.limit), c the new count
limitReached(c) == input.limit # {} /\ c >= Get(input.limit)

\* request.onsuccess of the cursor request, with the cursor at cur (<<>> is
\* null) and rest the requests still waiting behind the answered one.
onsuccess(cur, rest) ==
    IF cur = <<>>
    THEN /\ promise' = okResult(promise, count, data)
         /\ requests' = rest
         /\ log' = Append(log, Ev("ok", 0, 0))
         /\ UNCHANGED <<count, data, advanceFlag, tsn, store>>
    ELSE IF skipPending
    THEN /\ advanceFlag' = TRUE
         /\ IF Get(input.offset) = 0
            \* cursor.advance(0) throws TypeError out of the handler: the
            \* transaction aborts and nothing calls ok or error.
            THEN /\ tsn' = "aborted"
                 /\ store' = table
                 /\ requests' = <<>>
                 /\ log' = Append(log, Ev("throw", 0, 0))
            ELSE /\ requests' = Append(rest, Req("advance", Get(input.offset)))
                 /\ log' = Append(log, Ev("advance", 0, Get(input.offset)))
                 /\ UNCHANGED <<tsn, store>>
         /\ UNCHANGED <<count, data, promise>>
    ELSE LET acted == IF input.type = "delete"
                      THEN <<Req("delete", cur[1][2])>> ELSE <<>>
             newData == IF input.type = "delete"
                        THEN data ELSE Append(data, ValueAt(cur, store))
             act == Ev(IF input.type = "delete" THEN "delete" ELSE "push", cur[1][1], cur[1][2])
         IN  /\ data' = newData
             /\ count' = count + 1
             /\ IF limitReached(count + 1)
                THEN /\ promise' = okResult(promise, count + 1, newData)
                     /\ requests' = rest \o acted
                     /\ log' = log \o <<act, Ev("ok", 0, 0)>>
                ELSE /\ promise' = promise
                     /\ requests' = rest \o acted \o <<Req("continue", 0)>>
                     /\ log' = log \o <<act, Ev("continue", 0, 0)>>
             /\ UNCHANGED <<advanceFlag, tsn, store>>

CursorOps == {"openCursor", "advance", "continue"}

\* The substrate answers the cursor request at the head of the queue: it moves
\* the cursor and fires success, which runs request.onsuccess.
CursorSuccess ==
    /\ tsn = "active"
    /\ requests # <<>>
    /\ Head(requests).op \in CursorOps
    /\ LET req == Head(requests)
           n == IF req.op = "advance" THEN req.n ELSE 1
           cur == Iterate(cursor, n, source, store, range, direction)
       IN  /\ cursor' = cur
           /\ onsuccess(cur, Tail(requests))
    /\ UNCHANGED <<table, input, source, before>>
    /\ UNCHANGED searchVars
    /\ UNCHANGED writeVars

\* A cursor.delete() that empties the record instead of removing it.
DeleteSuccessBlanks ==
    /\ tsn = "active"
    /\ requests # <<>>
    /\ Head(requests).op = "delete"
    /\ store' = {IF r.id = Head(requests).n THEN [r EXCEPT !.words = {}] ELSE r : r \in store}
    /\ requests' = Tail(requests)
    /\ UNCHANGED <<table, tsn, input, source, cursor, count, data, advanceFlag,
                   promise, log, before>>
    /\ UNCHANGED searchVars
    /\ UNCHANGED writeVars

\* The substrate carries out a cursor.delete(): the record leaves the store.
\* query() registers no handler on that request.
DeleteSuccess ==
    /\ tsn = "active"
    /\ requests # <<>>
    /\ Head(requests).op = "delete"
    /\ store' = {r \in store : r.id # Head(requests).n}
    /\ requests' = Tail(requests)
    /\ UNCHANGED <<table, tsn, input, source, cursor, count, data, advanceFlag,
                   promise, log, before>>
    /\ UNCHANGED searchVars
    /\ UNCHANGED writeVars

\* A count that stops at input.limit.
CountResultPaged(src, contents, rng) ==
    LET n == Cardinality({e \in Entries(src, contents) : InRange(e[1], rng)})
    IN  IF input.limit # {} /\ Get(input.limit) < n THEN Get(input.limit) ELSE n

\* source.count(range) answered: r.onsuccess resolves with the number of
\* entries of the source in range.
CountResult(src, contents, rng) ==
    Cardinality({e \in Entries(src, contents) : InRange(e[1], rng)})

CountSuccess ==
    /\ tsn = "active"
    /\ requests # <<>>
    /\ Head(requests).op = "count"
    /\ promise' = Resolve(promise, <<>>, CountResult(source, store, range))
    /\ requests' = Tail(requests)
    /\ log' = Append(log, Ev("ok", 0, 0))
    /\ UNCHANGED <<table, store, tsn, input, source, cursor, count, data,
                   advanceFlag, before>>
    /\ UNCHANGED searchVars
    /\ UNCHANGED writeVars

\* onerror of a request: the cursor and count requests carry a handler that
\* calls error(event.target.error); a cursor.delete() request carries none.
onerror(p, req, reason) ==
    IF req.op = "delete" THEN p ELSE Reject(p, reason)

RECURSIVE AbortAll(_, _)
AbortAll(p, reqs) ==
    IF reqs = <<>> THEN p
    ELSE AbortAll(onerror(p, Head(reqs), "AbortError"), Tail(reqs))

\* The substrate fails the request at the head of the queue.  Its error event
\* runs the request's onerror; nothing prevents the default, so the
\* transaction aborts: its changes are undone and every request still
\* waiting gets an error event with AbortError.
RequestError ==
    /\ tsn = "active"
    /\ requests # <<>>
    /\ promise' = AbortAll(onerror(promise, Head(requests), "SubstrateError"),
                           Tail(requests))
    /\ tsn' = "aborted"
    /\ store' = table
    /\ requests' = <<>>
    /\ log' = Append(log, Ev("error", 0, 0))
    /\ UNCHANGED <<table, input, source, cursor, count, data, advanceFlag, before>>
    /\ UNCHANGED searchVars
    /\ UNCHANGED writeVars

\* With no request left the transaction commits.
Commit ==
    /\ tsn = "active"
    /\ requests = <<>>
    /\ tsn' = "committed"
    /\ table' = store
    /\ UNCHANGED <<store, requests, input, source, cursor, count, data,
                   advanceFlag, promise, log, before>>
    /\ UNCHANGED searchVars
    /\ UNCHANGED writeVars

\* select(input), count(input) or remove(input) is called, once.
Call ==
    /\ tsn = "none"
    /\ \E d \in Inputs : Query(d)

Next ==
    \/ Call
    \/ CursorSuccess
    \/ DeleteSuccess
    \/ CountSuccess
    \/ RequestError
    \/ Commit

Spec == Init /\ [][Next]_vars
----------------------------------------------------------------------------
\* What the properties speak about

\* The entries of a set, in cursor order.
RECURSIVE SeqOf(_, _)
SeqOf(S, dir) ==
    IF S = {} THEN <<>>
    ELSE LET e == First(S, dir) IN <<e>> \o SeqOf(S \ {e}, dir)

\* The entries matching input.value when the call was made, in the order of
\* the requested direction, and the records they stand for: the sequence a
\* cursor over the untouched table visits.
Matching == SeqOf({e \in Entries(source, before) : InRange(e[1], range)}, direction)
RecordOf(e) == CHOOSE r \in before : r.id = e[2]
Full == [i \in 1..Len(Matching) |-> RecordOf(Matching[i])]
MatchingRecords == {RecordOf(Matching[i]) : i \in 1..Len(Matching)}

Min(a, b) == IF a <= b THEN a ELSE b
Max(a, b) == IF a >= b THEN a ELSE b

\* The page of sequence s that starts after o elements and holds at most l.
Page(s, o, l) == SubSeq(s, o + 1, Min(Len(s), o + l))

Called == tsn # "none"
Finished == tsn \in {"committed", "aborted"}
Resolved == promise.state = "resolved"
Rejected == promise.state = "rejected"
\* The substrate failed a request of the call.
Failed == \E i \in 1..Len(log) : log[i].ev = "error"
\* The descriptor is one IDBKeyRange accepts (start <= end).
ValidRange == Called /\ ~filterThrows(input.value)
\* The positions of the history at which a record was appended or deleted.
Actions == {i \in 1..Len(log) : log[i].ev \in {"push", "delete"}}
OffsetOr0 == IF input.offset = {} THEN 0 ELSE Get(input.offset)

----------------------------------------------------------------------------
\* C1: pagination is gap-free and duplicate-free.  Once a select with offset
\* o and limit l >= 1 is over (its transaction finished, no substrate failure)
\* it has resolved with the page of the full ordered sequence that starts
\* after o records and holds at most l; this includes the first page, o = 0.
C1_Pagination ==
    (/\ input.type = "select" /\ ValidRange
     /\ input.offset # {} /\ input.limit # {}
     /\ Get(input.limit) >= 1
     /\ Finished /\ ~Failed)
    => /\ Resolved
       /\ promise.value = Page(Full, Get(input.offset), Get(input.limit))

\* C2: with limit = 0 select and remove act on no record: nothing is
\* appended, nothing is deleted, select resolves with the empty sequence and
\* remove with 0.
C2_LimitZero ==
    (input.type \in {"select", "delete"} /\ input.limit = {0})
    => /\ Actions = {}
       /\ store = before
       /\ Resolved => (promise.value = <<>> /\ promise.number = 0)

\* C3: a call naming an index the table does not have rejects before any
\* iteration starts: no cursor is opened, no count is issued, nothing is
\* deleted.
C3_UnknownIndex ==
    (Called /\ input.index # "undefined" /\ input.index \notin IndexNames)
    => /\ Rejected
       /\ \A i \in 1..Len(log) : log[i].ev \notin {"openCursor", "count"}
       /\ store = before

\* C4 as claimed: also when the descriptor carries a (positive) offset or
\* limit, a remove that went through leaves exactly the complement of the
\* records matching the value.
C4_RemoveAllMatching ==
    (/\ input.type = "delete" /\ Resolved /\ tsn = "committed"
     /\ \A o \in input.offset : o >= 1
     /\ \A l \in input.limit : l >= 1)
    => table = before \ MatchingRecords

\* C4 amended: for a descriptor without offset and limit, select resolves
\* with the matching records in order and remove, once it has resolved and
\* its transaction has committed, leaves exactly the complement of those
\* records; with offset or limit remove deletes matching records only.
C4_RemoveComplement ==
    /\ (input.type = "select" /\ input.offset = {} /\ input.limit = {} /\ Resolved)
       => promise.value = Full
    /\ (input.type = "delete" /\ input.offset = {} /\ input.limit = {}
        /\ Resolved /\ tsn = "committed")
       => table = before \ MatchingRecords
    /\ (input.type = "delete" /\ Called)
       => (table \subseteq before /\ before \ table \subseteq MatchingRecords)

C4_Witness ==
    /\ input.type = "delete" /\ input.offset = {} /\ input.limit = {}
    /\ Resolved /\ tsn = "committed"
    /\ table # {} /\ table # before

\* C5: every call settles: once the transaction of a call has finished, and
\* with it every request the substrate accepted, the promise is no longer
\* pending.
C5_Settles == Finished => promise.state # "pending"

\* C6: count ignores offset and limit: whatever they are, count resolves with
\* the number of entries matching the value, which is the length of the
\* sequence select resolves with when offset and limit are absent.
C6_CountIgnoresPaging ==
    /\ (input.type = "count" /\ Resolved) => promise.number = Len(Matching)
    /\ (input.type = "select" /\ input.offset = {} /\ input.limit = {} /\ Resolved)
       => Len(promise.value) = Len(Matching)

C6_Witness ==
    /\ input.type = "count" /\ Resolved
    /\ input.offset = {1} /\ input.limit = {1}
    /\ promise.number = 2

\* C7: with no value, offset or limit, on the primary ordering, select
\* resolves with every record of the table exactly once, by ascending primary
\* key for "next" and when direction is absent, by descending primary key for
\* "prev".
C7_SelectAll ==
    (/\ input.type = "select" /\ source = "store" /\ Resolved
     /\ input.value.type = "undefined" /\ input.offset = {} /\ input.limit = {})
    => LET v == promise.value
       IN  /\ Len(v) = Cardinality(before)
           /\ {v[i] : i \in 1..Len(v)} = before
           /\ \A i, j \in 1..Len(v) :
                i < j => IF input.direction = "prev"
                         THEN v[i].id > v[j].id ELSE v[i].id < v[j].id

C7_Witness ==
    /\ input.type = "select" /\ source = "store" /\ Resolved
    /\ input.value.type = "undefined" /\ input.offset = {} /\ input.limit = {}
    /\ input.direction = "prev"
    /\ Len(promise.value) = 2

\* The first k entries a cursor over the untouched table visits.
Skipped(k) == {Matching[j] : j \in 1..Min(k, Len(Matching))}

\* C8 as claimed: with offset k >= 1 the first k matching records are never
\* acted upon and never deleted.
C8_SkippedNeverDeleted ==
    (input.type \in {"select", "delete"} /\ input.offset # {} /\ Get(input.offset) >= 1)
    => /\ \A i \in Actions : <<log[i].key, log[i].id>> \notin Skipped(Get(input.offset))
       /\ \A e \in Skipped(Get(input.offset)) : \E r \in store : r.id = e[2]

\* C8 amended: with offset k >= 1 the skip is made once, by the one advance(k)
\* that follows the opening of the single cursor, before any action; no
\* record is appended or deleted while the cursor is on one of the first k
\* entries, and the first action is on the (k+1)-th entry.  (A record skipped
\* through one entry of a multi-valued index can still be deleted through a
\* later entry of the same record.)
C8_SkipOnce ==
    (input.type \in {"select", "delete"} /\ input.offset # {} /\ Get(input.offset) >= 1)
    => LET k == Get(input.offset)
       IN  /\ \A i \in 1..Len(log) :
                /\ log[i].ev = "advance" => (i = 2 /\ log[i].id = k)
                /\ log[i].ev = "openCursor" => i = 1
           /\ \A i \in Actions :
                /\ i > 2 /\ log[2].ev = "advance"
                /\ <<log[i].key, log[i].id>> \notin Skipped(k)
                /\ (\A j \in Actions : j >= i)
                   => (Len(Matching) > k /\ <<log[i].key, log[i].id>> = Matching[k + 1])

C8_Witness ==
    /\ input.type = "delete" /\ input.offset = {1} /\ source = "words"
    /\ Actions # {}
    /\ \E e \in Skipped(1) : \A r \in store : r.id # e[2]

\* C9: with limit L >= 1 the action counter never exceeds L, no cursor step
\* is requested once it equals L, and the call acts on exactly
\* min(L, max(0, M - offset)) records, M being the number of matches.
C9_LimitBound ==
    (input.type \in {"select", "delete"} /\ ValidRange
     /\ input.limit # {} /\ Get(input.limit) >= 1)
    => LET L == Get(input.limit)
       IN  /\ count <= L
           /\ count = L => \A i \in 1..Len(requests) : requests[i].op \notin CursorOps
           /\ (Finished /\ ~Failed)
              => count = Min(L, Max(0, Len(Matching) - OffsetOr0))

\* C10: when offset exceeds the number of matches the call does not reject
\* (the substrate not failing): it acts on nothing, deletes nothing, and
\* resolves with the empty sequence (select) or 0 (remove).
C10_OffsetBeyond ==
    (/\ input.type \in {"select", "delete"} /\ ValidRange
     /\ input.offset # {} /\ Get(input.offset) > Len(Matching)
     /\ ~Failed)
    => /\ ~Rejected
       /\ Actions = {}
       /\ store = before /\ table = before
       /\ Resolved => (promise.value = <<>> /\ promise.number = 0)
       /\ Finished => Resolved

C10_Witness ==
    /\ input.type = "delete" /\ input.offset = {2} /\ Len(Matching) = 1
    /\ Resolved /\ tsn = "committed"
\* C11: the integer remove resolves with is the number of records the call
\* removed: when the call is over, the table holds that many records fewer
\* than before.
C11_RemoveCount ==
    (input.type = "delete" /\ Resolved /\ Finished)
    => promise.number = Cardinality(before) - Cardinality(table)

\* C12: a failure the substrate reports during a select or remove makes the
\* call reject; the call never ends resolved with a partial sequence or count.
C12_FailureRejects ==
    (input.type \in {"select", "delete"} /\ Failed) => Rejected

\* The keys a value is claimed to match.
Expected(k, value) ==
    IF value.type = "undefined" THEN TRUE
    ELSE IF value.type = "number" THEN k = Get(value.v)
    ELSE /\ \A a \in value.start : a <= k
         /\ \A b \in value.end : k <= b

WellFormed(value) == value.type = "object" => (value.start # {} \/ value.end # {})

ExpectedEntries == {e \in Entries(source, before) : Expected(e[1], input.value)}
NoPaging == input.offset = {} /\ input.limit = {}

\* C13: ranges are inclusive at both ends: {start:a,end:b} matches the keys
\* a <= k <= b, {start:a} the keys k >= a, {end:b} the keys k <= b, a scalar
\* the keys equal to it and an absent value every key.  count resolves with
\* the number of such entries, select visits exactly them and remove deletes
\* exactly their records.
C13_InclusiveRange ==
    (Called /\ WellFormed(input.value))
    => /\ (input.type = "count" /\ Resolved)
          => promise.number = Cardinality(ExpectedEntries)
       /\ (input.type = "select" /\ NoPaging /\ Resolved)
          => {<<log[i].key, log[i].id>> : i \in Actions} = ExpectedEntries
       /\ (input.type = "delete" /\ NoPaging /\ Resolved /\ tsn = "committed")
          => {r.id : r \in before \ table} = {e[2] : e \in ExpectedEntries}

C13_Witness ==
    /\ input.type = "select" /\ NoPaging /\ Resolved
    /\ input.value.type = "object"
    /\ input.value.start = {1} /\ input.value.end = {2}
    /\ \E i, j \in Actions : log[i].key = 1 /\ log[j].key = 2

\* C14: an object value with neither start nor end is rejected before any
\* request: no cursor is opened, no count is issued, nothing is deleted.
C14_MalformedValue ==
    (Called /\ ~WellFormed(input.value))
    => /\ Rejected
       /\ \A i \in 1..Len(log) : log[i].ev \notin {"openCursor", "count"}
       /\ store = before

----------------------------------------------------------------------------
(* search(table, index, query, op): the tokenized search.                  *)

\* The characters a query is written in, as sequences of them: a string.
Chars == {"a", "b", "C", " "}
Strings == UNION {[1..n -> Chars] : n \in 0..MaxQueryLen}
\* A query is a string or some other value (a number, undefined, ...).
Queries == [type : {"string"}, chars : Strings] \cup {NoArgs.query}

toLowerCase(c) == IF c = "C" THEN "c" ELSE c
\* [\p{L}\p{N}]: the character is a letter or a digit.
isWordChar(c) == c \in {"a", "b", "c", "C"}

\* string.match(/[\p{L}\p{N}]+/gu): the maximal runs of word characters,
\* left to right; run is the run being read, out the runs already closed.
RECURSIVE match(_, _, _)
match(s, run, out) ==
    IF s = <<>> THEN (IF run = <<>> THEN out ELSE Append(out, run))
    ELSE IF isWordChar(Head(s)) THEN match(Tail(s), Append(run, Head(s)), out)
    ELSE match(Tail(s), <<>>, IF run = <<>> THEN out ELSE Append(out, run))

\* [...new Set(list)]: the distinct elements in order of first occurrence.
RECURSIVE unique(_, _)
unique(list, out) ==
    IF list = <<>> THEN out
    ELSE unique(Tail(list),
                IF \E i \in 1..Len(out) : out[i] = Head(list) THEN out
                ELSE Append(out, Head(list)))

\* A tokens() that keeps repeated words.
tokensRepeated(query) ==
    IF query.type # "string" \/ query.chars = <<>> THEN <<>>
    ELSE match([i \in 1..Len(query.chars) |-> toLowerCase(query.chars[i])], <<>>, <<>>)

tokens(query) ==
    IF query.type # "string" \/ query.chars = <<>> THEN <<>>
    ELSE unique(match([i \in 1..Len(query.chars) |-> toLowerCase(query.chars[i])],
                      <<>>, <<>>), <<>>)

\* The words a record of a searched table is indexed under, and the tables.
SearchWords == {<<"a">>, <<"b">>, <<"c">>}
SearchRecords == [id : Keys, words : SUBSET SearchWords]
SearchTables == {t \in SUBSET SearchRecords : \A r, q \in t : r.id = q.id => r = q}
SearchInputs == [index : {"words", "nope"}, query : Queries, op : Opt({"and", "or"})]

SearchInit ==
    /\ table \in SearchTables
    /\ store = table
    /\ before = table
    /\ tsn = "none"
    /\ requests = <<>>
    /\ input = NoInput
    /\ source = "null"
    /\ cursor = <<>>
    /\ count = 0
    /\ data = <<>>
    /\ advanceFlag = FALSE
    /\ promise = Pending
    /\ log = <<>>
    /\ args = NoArgs
    /\ words = <<>>
    /\ resultsArray = <<>>
    /\ finalIds = <<>>
    /\ finalObjects = <<>>
    /\ WriteIdle

\* i.getAllKeys(word): the primary keys of the index entries under word,
\* ascending.
RECURSIVE ascending(_)
ascending(S) ==
    IF S = {} THEN <<>>
    ELSE LET m == CHOOSE x \in S : \A y \in S : x <= y IN <<m>> \o ascending(S \ {m})
getAllKeys(contents, word) == ascending({r.id : r \in {q \in contents : word \in q.words}})

\* store.get(id): the record, or undefined when there is none.
get(contents, id) == {r \in contents : r.id = id}

has(list, id) == \E i \in 1..Len(list) : list[i] = id
\* finalIds.filter(id => currentSet.has(id))
Filter(list, currentSet) == SelectSeq(list, LAMBDA id : has(currentSet, id))
RECURSIVE flat(_)
flat(lists) == IF lists = <<>> THEN <<>> ELSE Head(lists) \o flat(Tail(lists))

intersectOnce(ids, lists) ==
    IF lists = <<>> \/ ids = <<>> THEN ids ELSE Filter(ids, Head(lists))
\* The loop of the "and" branch: start from the first list, keep what every
\* later list has too.
RECURSIVE intersect(_, _)
intersect(ids, lists) ==
    IF lists = <<>> \/ ids = <<>> THEN ids
    ELSE intersect(Filter(ids, Head(lists)), Tail(lists))

orRepeated(lists) == flat(lists)
or(lists) == unique(flat(lists), <<>>)
andFirst(lists) == Head(lists)
and(lists) == intersect(Head(lists), Tail(lists))

\* if (words.length === 0) return [];
noWordsNever(list) == FALSE
noWords(list) == Len(list) = 0

\* if (!store.indexNames.contains(index)) { error(...); return; }
indexMissingNever(index) == FALSE
indexMissing(index) == index \notin IndexNames

\* .catch(err => error(err))
catchResolves(p, err) == Resolve(p, <<>>, 0)
catch(p, err) == Reject(p, err)

\* The first .then handler: combine the key lists, then resolve with [] or
\* fetch every record that is left.
then(p, a, lists, history) ==
    IF a.op # {"or"} /\ lists = <<>>
    THEN \* resultsArray[0] is undefined: reading its length throws
         /\ finalIds' = <<>>
         /\ promise' = catch(p, "TypeError")
         /\ requests' = <<>>
         /\ log' = history
    ELSE /\ finalIds' = IF a.op = {"or"} THEN or(lists) ELSE and(lists)
         /\ IF Len(finalIds') = 0
            THEN /\ promise' = Resolve(p, <<>>, 0)
                 /\ requests' = <<>>
                 /\ log' = Append(history, Ev("combine", Len(lists), 0))
            ELSE /\ promise' = p
                 /\ requests' = [k \in 1..Len(finalIds') |-> Req("get", finalIds'[k])]
                 /\ log' = Append(history, Ev("combine", Len(lists), 0))
                           \o [k \in 1..Len(finalIds') |-> Ev("get", k, finalIds'[k])]

search(a) ==
    /\ args' = a
    /\ words' = tokens(a.query)
    /\ IF noWords(words')
       THEN /\ promise' = Resolve(promise, <<>>, 0)
            /\ UNCHANGED <<tsn, requests, log, finalIds>>
       ELSE /\ tsn' = "active"
            /\ IF indexMissing(a.index)
               THEN /\ promise' = Reject(promise, "IndexNotFound")
                    /\ requests' = <<>>
                    /\ log' = <<Ev("transaction", 0, 0)>>
                    /\ UNCHANGED finalIds
               ELSE IF Len(words') = 0
               THEN \* Promise.all([]) is fulfilled at once
                    then(promise, a, <<>>, <<Ev("transaction", 0, 0)>>)
               ELSE /\ requests' = [k \in 1..Len(words') |-> Req("getAllKeys", k)]
                    /\ log' = <<Ev("transaction", 0, 0)>>
                              \o [k \in 1..Len(words') |-> Ev("getAllKeys", k, 0)]
                    /\ UNCHANGED <<promise, finalIds>>
    /\ UNCHANGED <<table, store, before, resultsArray, finalObjects>>
    /\ UNCHANGED queryVars
    /\ UNCHANGED writeVars

Search == tsn = "none" /\ args = NoArgs /\ promise.state = "pending"
          /\ \E a \in SearchInputs : search(a)
\* The lookup at the head of the queue succeeds: req.onsuccess resolves its
\* promise with the key list.  With the last lookup Promise.all is fulfilled
\* and the first .then handler runs before the event is over.
KeysSuccess ==
    /\ tsn = "active"
    /\ requests # <<>>
    /\ Head(requests).op = "getAllKeys"
    /\ LET k == Head(requests).n
           history == Append(log, Ev("keys", k, 0))
       IN /\ resultsArray' = Append(resultsArray, getAllKeys(store, words[k]))
          /\ IF Len(resultsArray') = Len(words)
             THEN then(promise, args, resultsArray', history)
             ELSE /\ requests' = Tail(requests)
                  /\ log' = history
                  /\ UNCHANGED <<promise, finalIds>>
    /\ UNCHANGED <<table, store, tsn, before, args, words, finalObjects>>
    /\ UNCHANGED queryVars
    /\ UNCHANGED writeVars

\* The fetch at the head of the queue succeeds; with the last one the second
\* .then handler resolves the search with the records, in the order of
\* finalIds.
ObjectSuccess ==
    /\ tsn = "active"
    /\ requests # <<>>
    /\ Head(requests).op = "get"
    /\ finalObjects' = Append(finalObjects, get(store, Head(requests).n))
    /\ requests' = Tail(requests)
    /\ log' = Append(log, Ev("object", Len(finalObjects'), Head(requests).n))
    /\ promise' = IF requests' = <<>> THEN Resolve(promise, finalObjects', 0)
                  ELSE promise
    /\ UNCHANGED <<table, store, tsn, before, args, words, resultsArray, finalIds>>
    /\ UNCHANGED queryVars
    /\ UNCHANGED writeVars

\* The substrate fails the lookup or fetch at the head of the queue: its
\* onerror rejects its promise, Promise.all rejects with it, the chain skips
\* to .catch.  Nothing prevents the default, so the transaction aborts and
\* the requests still waiting fail with AbortError, too late to be seen.
SearchRequestError ==
    /\ tsn = "active"
    /\ requests # <<>>
    /\ Head(requests).op \in {"getAllKeys", "get"}
    /\ promise' = catch(promise, "SubstrateError")
    /\ tsn' = "aborted"
    /\ store' = table
    /\ requests' = <<>>
    /\ log' = Append(log, Ev("error", 0, 0))
    /\ UNCHANGED <<table, before>>
    /\ UNCHANGED searchVars
    /\ UNCHANGED queryVars
    /\ UNCHANGED writeVars

SearchNext ==
    \/ Search
    \/ KeysSuccess
    \/ ObjectSuccess
    \/ SearchRequestError
    \/ Commit

SpecSearch == SearchInit /\ [][SearchNext]_vars
----------------------------------------------------------------------------
(* Claims about search.                                                    *)

Searched == args # NoArgs
KnownIndex == Searched /\ args.index \in IndexNames
\* The tokens of the query, and the records the search resolved with.
Tokens == {words[k] : k \in 1..Len(words)}
Returned == UNION {promise.value[k] : k \in 1..Len(promise.value)}
\* No element of the result is undefined.
NoneMissing == \A k \in 1..Len(promise.value) : promise.value[k] # {}
\* The history holds no lookup and no fetch.
NothingIssued == /\ requests = <<>>
                 /\ \A k \in 1..Len(log) : log[k].ev \notin {"getAllKeys", "get"}
Events(name) == {k \in 1..Len(log) : log[k].ev = name}

\* C15: a search with op "and", given or by default, over a query of at least
\* one token resolves with exactly the records indexed under every token of
\* the query: none that lacks a token, none omitted that holds them all.
C15_SearchAnd ==
    (KnownIndex /\ args.op # {"or"} /\ Len(words) >= 1 /\ Resolved)
    => /\ Returned = {r \in before : \A w \in Tokens : w \in r.words}
       /\ NoneMissing

C15_Witness ==
    /\ KnownIndex /\ args.op # {"or"} /\ Len(words) = 2 /\ Resolved
    /\ Returned # {}
    /\ \E r \in before \ Returned : r.words \cap Tokens # {}

\* C16: a search with op "or" resolves with exactly the records indexed under
\* at least one token of the query, and each of them appears once in the
\* result, also when it matches several tokens.
C16_SearchOr ==
    (KnownIndex /\ args.op = {"or"} /\ Len(words) >= 1 /\ Resolved)
    => /\ Returned = {r \in before : \E w \in Tokens : w \in r.words}
       /\ NoneMissing
       /\ \A k, l \in 1..Len(promise.value) :
              promise.value[k] = promise.value[l] => k = l

C16_Witness ==
    /\ KnownIndex /\ args.op = {"or"} /\ Resolved
    /\ \E r \in Returned : Cardinality(r.words \cap Tokens) >= 2
    /\ \E r \in before : r \notin Returned

\* The orders the words of the query can be written in.
Orders == {f \in [1..Len(words) -> 1..Len(words)] :
                    \A k, l \in 1..Len(words) : f[k] = f[l] => k = l}
\* The ids the "and" combination leaves when the words are looked up in the
\* order f.
AndIds(f) ==
    LET ids == and([k \in 1..Len(words) |-> getAllKeys(before, words[f[k]])])
    IN {ids[k] : k \in 1..Len(ids)}

\* C17: for an "and" search the set of records returned does not depend on
\* the order of the words in the query: whatever the table holds, every
\* permutation of the words combines to the set the search resolved with.
C17_OrderIndependent ==
    (KnownIndex /\ args.op # {"or"} /\ Len(words) >= 1 /\ Resolved)
    => \A f \in Orders : AndIds(f) = {r.id : r \in Returned}

C17_Witness ==
    /\ KnownIndex /\ args.op # {"or"} /\ Len(words) = 3 /\ Resolved
    /\ Returned # {}
    /\ \E k, l \in 1..3 : resultsArray[k] # resultsArray[l]

\* C18: a query without tokens (empty, not a string, or made of separators
\* only) makes search resolve with the empty sequence, and no transaction is
\* opened, no index looked at and no lookup issued.
C18_NoTokens ==
    (Searched /\ tokens(args.query) = <<>>)
    => /\ Resolved /\ promise.value = <<>>
       /\ tsn = "none"
       /\ log = <<>>
       /\ NothingIssued

C18_Witness ==
    /\ Searched /\ Resolved /\ tsn = "none"
    /\ args.query.type = "string" /\ Len(args.query.chars) >= 2
    /\ tokens(args.query) = <<>>

\* C19, as stated: a search against an index the table does not have
\* rejects, and no lookup and no fetch is issued, then or later.
C19_UnknownIndex ==
    (Searched /\ args.index \notin IndexNames) => (Rejected /\ NothingIssued)

\* C19, amended: a search against an index the table does not have, over a
\* query of at least one token, rejects, and no lookup and no fetch is
\* issued, then or later.
C19_UnknownIndexTokens ==
    (Searched /\ args.index \notin IndexNames /\ tokens(args.query) # <<>>)
    => (Rejected /\ NothingIssued)

C19_Witness ==
    /\ Searched /\ args.index \notin IndexNames /\ Len(words) >= 2
    /\ Rejected /\ tsn = "committed"

\* C20: every lookup of a search is issued before any of them completes, the
\* combination starts only when every lookup has succeeded, and a search one
\* of whose lookups or fetches failed is rejected, with that failure, and is
\* never resolved, not even with part of the result.
C20_AllOrNothing ==
    Searched
    => /\ \A k \in Events("keys") :
              /\ Cardinality({l \in Events("getAllKeys") : l < k}) = Len(words)
              /\ \A l \in Events("getAllKeys") : l < k
       /\ \A k \in Events("combine") :
              Cardinality({l \in Events("keys") : l < k}) = Len(words)
       /\ Failed => (Rejected /\ promise.reason = "SubstrateError")

C20_Witness ==
    /\ Searched /\ Failed /\ Rejected
    /\ Events("keys") # {}
    /\ Len(resultsArray) < Len(words)
----------------------------------------------------------------------------
(* tokens(string) on its own: the text is drawn at the start, one step     *)
(* applies tokens to it.                                                   *)

TokensInit ==
    /\ table = {}
    /\ store = table
    /\ before = table
    /\ tsn = "none"
    /\ requests = <<>>
    /\ input = NoInput
    /\ source = "null"
    /\ cursor = <<>>
    /\ count = 0
    /\ data = <<>>
    /\ advanceFlag = FALSE
    /\ promise = Pending
    /\ log = <<>>
    /\ args \in [index : {"undefined"}, query : Queries, op : {{}}]
    /\ words = <<>>
    /\ resultsArray = <<>>
    /\ finalIds = <<>>
    /\ finalObjects = <<>>
    /\ WriteIdle

Tokenize ==
    /\ log = <<>>
    /\ words' = tokens(args.query)
    /\ log' = <<Ev("tokens", 0, 0)>>
    /\ UNCHANGED <<table, store, before, tsn, requests, promise, args,
                   resultsArray, finalIds, finalObjects>>
    /\ UNCHANGED queryVars
    /\ UNCHANGED writeVars

SpecTokens == TokensInit /\ [][Tokenize]_vars

Tokenized == log # <<>>

\* The text in lower case, and its maximal runs of letters and digits as
\* pairs <<first, last>> of positions.
Lowered == [i \in 1..Len(args.query.chars) |-> toLowerCase(args.query.chars[i])]
Runs ==
    {run \in (1..Len(Lowered)) \X (1..Len(Lowered)) :
        /\ run[1] <= run[2]
        /\ \A i \in run[1]..run[2] : isWordChar(Lowered[i])
        /\ run[1] = 1 \/ ~isWordChar(Lowered[run[1] - 1])
        /\ run[2] = Len(Lowered) \/ ~isWordChar(Lowered[run[2] + 1])}
RunText(run) == SubSeq(Lowered, run[1], run[2])
\* Where a word first occurs in the text.
FirstAt(w) == CHOOSE i \in 1..Len(Lowered) :
                 /\ \E run \in Runs : run[1] = i /\ RunText(run) = w
                 /\ \A run \in Runs : RunText(run) = w => i <= run[1]
RECURSIVE join(_)
join(list) ==
    IF list = <<>> THEN <<>>
    ELSE IF Len(list) = 1 THEN Head(list)
    ELSE Head(list) \o <<" ">> \o join(Tail(list))

\* C23: tokens(text) is the sequence of the maximal runs of letters and
\* digits of the lowercased text, in order of first occurrence and without
\* repetition; every token is non-empty and in lower case; a text that is
\* not a string, is empty or holds no letter or digit gives the empty
\* sequence; and the tokens of the space-joined result are the result.
C23_Tokens ==
    Tokenized
    => /\ args.query.type # "string" => words = <<>>
       /\ args.query.type = "string"
          => /\ {words[k] : k \in 1..Len(words)} = {RunText(run) : run \in Runs}
             /\ \A k, l \in 1..Len(words) :
                    k < l => FirstAt(words[k]) < FirstAt(words[l])
             /\ \A k \in 1..Len(words) :
                    /\ words[k] # <<>>
                    /\ \A i \in 1..Len(words[k]) : words[k][i] \in {"a", "b", "c"}
       /\ tokens([type |-> "string", chars |-> join(words)]) = words

C23_Witness ==
    /\ Tokenized
    /\ Cardinality(Runs) = 3
    /\ Len(words) = 2
    /\ \E i \in 1..Len(args.query.chars) : args.query.chars[i] = "C"
----------------------------------------------------------------------------
\* C27: when remove has resolved, no cursor.delete() it issued is still
\* waiting to be carried out, whether it stopped at the end of the source or
\* at the limit.
C27_DeletesDone ==
    (input.type = "delete" /\ Resolved)
    => \A k \in 1..Len(requests) : requests[k].op # "delete"
----------------------------------------------------------------------------
(* select, count, remove and search over the same tables.  The tables are  *)
(* those of search; select, count and remove go by primary key.            *)

CallByKey ==
    /\ tsn = "none"
    /\ args = NoArgs
    /\ \E d \in {i \in Inputs : i.index # "words"} : Query(d)

ReadNext ==
    \/ CallByKey
    \/ CursorSuccess
    \/ DeleteSuccess
    \/ CountSuccess
    \/ RequestError
    \/ Search
    \/ KeysSuccess
    \/ ObjectSuccess
    \/ SearchRequestError
    \/ Commit

SpecRead == SearchInit /\ [][ReadNext]_vars

\* C24: select, count and search leave the table as it was; remove only
\* takes records away from it, it adds none and changes none.
C24_NeverCreates ==
    /\ (input.type \in {"select", "count"} \/ Searched)
       => (table = before /\ store = before)
    /\ input.type = "delete" => (table \subseteq before /\ store \subseteq before)

C24_Witness ==
    /\ input.type = "delete" /\ tsn = "committed"
    /\ table # before /\ table # {}
----------------------------------------------------------------------------
(* add, put, deleteMany, update, clear and importData, with the            *)
(* transactions they open on the shared connection.                        *)

\* The records of the written tables: the key and two optional fields.
FieldValues == 1..MaxField
WriteRecords == [id : Keys, a : Opt(FieldValues), b : Opt(FieldValues)]
WriteTables ==
    UNION {{{f[k] : k \in ks} : f \in {g \in [ks -> WriteRecords] : \A k \in ks : g[k].id = k}} :
           ks \in SUBSET Keys}
\* Records that carry the field a only, and the tables of such records.
PlainRecords == {r \in WriteRecords : r.a # {} /\ r.b = {}}
PlainTables == {t \in WriteTables : t \subseteq PlainRecords}

\* query(), search() and tokens() are not in use.
ReadIdle ==
    /\ table = {}
    /\ store = {}
    /\ tsn = "none"
    /\ requests = <<>>
    /\ input = NoInput
    /\ source = "null"
    /\ cursor = <<>>
    /\ count = 0
    /\ data = <<>>
    /\ advanceFlag = FALSE
    /\ promise = Pending
    /\ args = NoArgs
    /\ words = <<>>
    /\ resultsArray = <<>>
    /\ finalIds = <<>>
    /\ finalObjects = <<>>

\* A request placed against a transaction, with the handlers the code put
\* on it: "request" (request() with complete: false: onsuccess calls ok,
\* onerror calls error), "update" (the onsuccess of update's get), "none".
Request(op, arg, handler) == [op |-> op, arg |-> arg, handler |-> handler]

\* db.transaction([t], "readwrite") of call c with its requests; handler
\* "tsn" stands for tsn.oncomplete and tsn.onerror calling ok and error.
Transaction(c, t, reqs, handler) ==
    [call |-> c, table |-> t, state |-> "queued", requests |-> reqs,
     work |-> {}, handler |-> handler]

\* What a handler passes to ok or to error.
Ok(value) == [ok |-> TRUE, value |-> value, reason |-> ""]
Err(reason) == [ok |-> FALSE, value |-> <<>>, reason |-> reason]

\* An item of a batch is {x}, or {} when it is a value the store refuses
\* as record or key (undefined, null).  forEach places the requests one
\* by one; the refused item throws DataError out of forEach.
Refused(list) == \E k \in 1..Len(list) : list[k] = {}
FirstRefused(list) == CHOOSE k \in 1..Len(list) : list[k] = {} /\ \A l \in 1..k - 1 : list[l] # {}
Placed(list) == IF Refused(list) THEN SubSeq(list, 1, FirstRefused(list) - 1) ELSE list

\* write(table, data, method) with an array: the transaction it leaves
\* behind.  request() is reached only when no item was refused.
writeTx(c, t, list, method) ==
    Transaction(c, t, [k \in 1..Len(Placed(list)) |-> Request(method, Get(Placed(list)[k]), "none")],
                IF Refused(list) THEN "none" ELSE "tsn")

\* deleteMany(table, data)
deleteManyTx(c, t, list) ==
    Transaction(c, t, [k \in 1..Len(Placed(list)) |-> Request("delete", Get(Placed(list)[k]), "none")],
                IF Refused(list) THEN "none" ELSE "tsn")

\* clear(table)
clearTx(c, t) == Transaction(c, t, <<Request("clear", 0, "request")>>, "none")

\* update(table, id, data) up to the registration of the handlers
updateTx(c, t, id) == Transaction(c, t, <<Request("get", id, "update")>>, "tsn")

\* An update that stores the new fields alone.
newDataOnly(result, fields) == [id |-> result.id, a |-> fields.a, b |-> fields.b]

\* let newData = {...result, ...data}
newData(result, fields) ==
    [id |-> IF fields.id # {} THEN Get(fields.id) ELSE result.id,
     a |-> IF fields.a # {} THEN fields.a ELSE result.a,
     b |-> IF fields.b # {} THEN fields.b ELSE result.b]

\* importData from the k-th key of json on, W being the calls and the
\* transactions so far: it runs until its next await or its return.
RECURSIVE importFrom(_, _, _, _)
importFrom(W, c, k, phase) ==
    LET call == W.calls[c]
        json == call.data
    IN  IF k > Len(json)
        THEN [W EXCEPT !.calls[c].promise = Resolve(@, <<TRUE>>, 0),
                       !.calls[c].phase = "done", !.calls[c].pc = k]
        ELSE IF json[k][1] \notin TableNames
        THEN importFrom(W, c, k + 1, "start")
        ELSE IF call.overwrite /\ phase = "start"
        THEN [calls |-> [W.calls EXCEPT ![c].pc = k, ![c].phase = "clear"],
              txs |-> Append(W.txs, clearTx(c, json[k][1]))]
        ELSE [calls |-> [W.calls EXCEPT
                            ![c].pc = k,
                            ![c].phase = IF Refused(json[k][2]) THEN "done" ELSE "put",
                            ![c].promise = IF Refused(json[k][2])
                                           THEN Reject(@, "DataError") ELSE @],
              txs |-> Append(W.txs, writeTx(c, json[k][1], json[k][2], "put"))]

\* ok or error of the promise call c waits on.  importData awaits clear and
\* put: their outcome resumes it; the other calls hand the promise out.
Settle(W, c, outcome) ==
    IF W.calls[c].op = "importData"
    THEN IF W.calls[c].phase \notin {"clear", "put"} THEN W
         ELSE IF ~outcome.ok
         THEN [W EXCEPT !.calls[c].promise = Reject(@, outcome.reason),
                        !.calls[c].phase = "done"]
         ELSE IF W.calls[c].phase = "clear"
         THEN importFrom(W, c, W.calls[c].pc, "put")
         ELSE importFrom(W, c, W.calls[c].pc + 1, "start")
    ELSE IF outcome.ok
    THEN [W EXCEPT !.calls[c].promise = Resolve(@, outcome.value, 0)]
    ELSE [W EXCEPT !.calls[c].promise = Reject(@, outcome.reason)]

\* A transaction runs when every transaction created before it on the same
\* table has finished: read-write transactions on one table are serialized.
Runnable(i) ==
    /\ txs[i].state \in {"queued", "active"}
    /\ \A j \in 1..i - 1 :
          txs[j].table = txs[i].table => txs[j].state \in {"committed", "aborted"}

\* The contents transaction i sees: the committed ones until it has run a
\* request, its own afterwards.
View(i) == IF txs[i].state = "queued" THEN db[txs[i].table] ELSE txs[i].work

\* What a request does to the contents, and what it answers (an optional
\* value: the record of a get, the key of an add or put).
Apply(contents, req) ==
    IF req.op \in {"add", "put"}
    THEN {q \in contents : q.id # req.arg.id} \cup {req.arg}
    ELSE IF req.op = "delete" THEN {q \in contents : q.id # req.arg}
    ELSE IF req.op = "clear" THEN {}
    ELSE contents
ResultOf(contents, req) ==
    IF req.op = "get" THEN {q \in contents : q.id = req.arg}
    ELSE IF req.op \in {"add", "put"} THEN {req.arg.id}
    ELSE {}
\* add on a key the table already holds fails with ConstraintError.
ConstraintError(contents, req) ==
    req.op = "add" /\ \E q \in contents : q.id = req.arg.id

\* An update that places its put on a transaction of its own.
updatePutApart(W, i, record) ==
    [W EXCEPT !.txs = Append(@, Transaction(W.txs[i].call, W.txs[i].table,
                                            <<Request("put", record, "none")>>, "none"))]

\* store.put(newData) inside the onsuccess of the get: same transaction.
updatePut(W, i, record) ==
    [W EXCEPT !.txs[i].requests = Append(@, Request("put", record, "none"))]

\* The onsuccess handler of a request of transaction i.
onsuccessOf(W, i, req, result) ==
    IF req.handler = "request" THEN Settle(W, W.txs[i].call, Ok(<<result>>))
    ELSE IF req.handler = "update"
    THEN IF result = {}
         THEN Settle(W, W.txs[i].call, Err("not date"))
         ELSE updatePut(W, i, newData(Get(result), W.calls[W.txs[i].call].data))
    ELSE W

\* The request at the head of a running transaction succeeds.
success(i) ==
    /\ Runnable(i)
    /\ txs[i].requests # <<>>
    /\ ~ConstraintError(View(i), Head(txs[i].requests))
    /\ LET req == Head(txs[i].requests)
           W1 == [calls |-> calls,
                  txs |-> [txs EXCEPT ![i].state = "active",
                                      ![i].work = Apply(View(i), req),
                                      ![i].requests = Tail(@)]]
           W2 == onsuccessOf(W1, i, req, ResultOf(View(i), req))
       IN  /\ calls' = W2.calls
           /\ txs' = W2.txs
    /\ log' = Append(log, Ev("success", i, 0))
    /\ UNCHANGED <<db, table, store, tsn, requests, promise, before>>
    /\ UNCHANGED queryVars
    /\ UNCHANGED searchVars

\* The request at the head of a running transaction fails: an add on a key
\* that exists, or a failure of the substrate.  The error event runs the
\* request's onerror and bubbles to tsn.onerror; nothing prevents the
\* default, so the transaction aborts and its changes are undone.
failure(i) ==
    /\ Runnable(i)
    /\ txs[i].requests # <<>>
    /\ LET req == Head(txs[i].requests)
           reason == IF ConstraintError(View(i), req)
                     THEN "ConstraintError" ELSE "SubstrateError"
           W1 == [calls |-> calls,
                  txs |-> [txs EXCEPT ![i].state = "aborted",
                                      ![i].work = {},
                                      ![i].requests = <<>>]]
           W2 == IF req.handler = "request" \/ txs[i].handler = "tsn"
                 THEN Settle(W1, txs[i].call, Err(reason)) ELSE W1
       IN  /\ calls' = W2.calls
           /\ txs' = W2.txs
    /\ log' = Append(log, Ev("error", i, 0))
    /\ UNCHANGED <<db, table, store, tsn, requests, promise, before>>
    /\ UNCHANGED queryVars
    /\ UNCHANGED searchVars

\* A running transaction with no request left commits: its contents become
\* the table's and the complete event runs tsn.oncomplete.
complete(i) ==
    /\ Runnable(i)
    /\ txs[i].requests = <<>>
    /\ db' = [db EXCEPT ![txs[i].table] = View(i)]
    /\ LET W1 == [calls |-> calls, txs |-> [txs EXCEPT ![i].state = "committed"]]
           W2 == IF txs[i].handler = "tsn"
                 THEN Settle(W1, txs[i].call, Ok(<<TRUE>>)) ELSE W1
       IN  /\ calls' = W2.calls
           /\ txs' = W2.txs
    /\ log' = Append(log, Ev("complete", i, 0))
    /\ UNCHANGED <<table, store, tsn, requests, promise, before>>
    /\ UNCHANGED queryVars
    /\ UNCHANGED searchVars

\* The commit itself fails (quota, disk): the transaction aborts.  Only the
\* abort event is fired, no error event, and no code listens to abort.
abortOnCommit(i) ==
    /\ Runnable(i)
    /\ txs[i].requests = <<>>
    /\ txs' = [txs EXCEPT ![i].state = "aborted", ![i].work = {}]
    /\ log' = Append(log, Ev("abort", i, 0))
    /\ UNCHANGED <<db, calls, table, store, tsn, requests, promise, before>>
    /\ UNCHANGED queryVars
    /\ UNCHANGED searchVars

Success == \E i \in 1..Len(txs) : success(i)
Failure == \E i \in 1..Len(txs) : failure(i)
Complete == \E i \in 1..Len(txs) : complete(i)
AbortOnCommit == \E i \in 1..Len(txs) : abortOnCommit(i)

\* The arrays a batch call is given: up to MaxBatch items.
Lists(S) == UNION {[1..n -> Opt(S)] : n \in 0..MaxBatch}

\* write(table, data, method) with an array, called as add or put
write(c, t, list, method) ==
    /\ calls' = [calls EXCEPT ![c] =
                    [NoCall EXCEPT !.op = method, !.table = t, !.data = list,
                                   !.promise = IF Refused(list)
                                               THEN Reject(Pending, "DataError")
                                               ELSE Pending]]
    /\ txs' = Append(txs, writeTx(c, t, list, method))
    /\ log' = log \o [k \in 1..Len(Placed(list)) |-> Ev("issue", Len(txs) + 1, k)]
    /\ UNCHANGED <<db, table, store, tsn, requests, promise, before>>
    /\ UNCHANGED queryVars
    /\ UNCHANGED searchVars

deleteMany(c, t, list) ==
    /\ calls' = [calls EXCEPT ![c] =
                    [NoCall EXCEPT !.op = "deleteMany", !.table = t, !.data = list,
                                   !.promise = IF Refused(list)
                                               THEN Reject(Pending, "DataError")
                                               ELSE Pending]]
    /\ txs' = Append(txs, deleteManyTx(c, t, list))
    /\ log' = log \o [k \in 1..Len(Placed(list)) |-> Ev("issue", Len(txs) + 1, k)]
    /\ UNCHANGED <<db, table, store, tsn, requests, promise, before>>
    /\ UNCHANGED queryVars
    /\ UNCHANGED searchVars

update(c, t, id, fields) ==
    /\ calls' = [calls EXCEPT ![c] =
                    [NoCall EXCEPT !.op = "update", !.table = t, !.id = id, !.data = fields]]
    /\ txs' = Append(txs, updateTx(c, t, id))
    /\ log' = Append(log, Ev("issue", Len(txs) + 1, 1))
    /\ UNCHANGED <<db, table, store, tsn, requests, promise, before>>
    /\ UNCHANGED queryVars
    /\ UNCHANGED searchVars

importData(c, json, overwrite) ==
    /\ LET W0 == [calls |-> [calls EXCEPT ![c] =
                                [NoCall EXCEPT !.op = "importData", !.data = json,
                                               !.overwrite = overwrite, !.phase = "start"]],
                  txs |-> txs]
           W == importFrom(W0, c, 1, "start")
       IN  /\ calls' = W.calls
           /\ txs' = W.txs
    /\ log' = Append(log, Ev("importData", c, 0))
    /\ UNCHANGED <<db, table, store, tsn, requests, promise, before>>
    /\ UNCHANGED queryVars
    /\ UNCHANGED searchVars
----------------------------------------------------------------------------
(* One batch call: add or put with an array, or deleteMany, on table T.    *)

BatchInit ==
    /\ ReadIdle
    /\ db \in [TableNames -> PlainTables]
    /\ db["U"] = {}
    /\ calls = [c \in CallIds |-> NoCall]
    /\ txs = <<>>
    /\ before = db
    /\ log = <<>>

Write ==
    /\ calls[1].op = "none"
    /\ \E method \in {"add", "put"}, list \in Lists(PlainRecords) :
          write(1, "T", list, method)

DeleteMany ==
    /\ calls[1].op = "none"
    /\ \E list \in Lists(Keys) : deleteMany(1, "T", list)

BatchNext ==
    \/ Write
    \/ DeleteMany
    \/ Success
    \/ Failure
    \/ Complete
    \/ AbortOnCommit

SpecBatch == BatchInit /\ [][BatchNext]_vars

\* The batch call has been made; its transaction is the first one.
BatchCalled == calls[1].op \in {"add", "put", "deleteMany"}
TxFinished(i) == txs[i].state \in {"committed", "aborted"}
LogEvents(name) == {k \in 1..Len(log) : log[k].ev = name}

\* C21: a batch call places all its member requests before any of them is
\* answered, resolves only when its transaction has completed, never on a
\* member's success, and is settled once its transaction is over, resolved
\* if it completed and rejected if it failed.
C21_BatchSettles ==
    BatchCalled
    => /\ \A k \in LogEvents("issue") : \A l \in LogEvents("success") : k < l
       /\ calls[1].promise.state = "resolved" => txs[1].state = "committed"
       /\ txs[1].state = "committed" /\ ~Refused(calls[1].data)
          => calls[1].promise.state = "resolved"
       /\ txs[1].state = "aborted" => calls[1].promise.state = "rejected"

\* C22: when a batch call is rejected, for whatever reason, none of its
\* writes or deletes is in the table once its transaction is over: the
\* table is as it was.
C22_AllOrNothing ==
    (BatchCalled /\ calls[1].promise.state = "rejected" /\ TxFinished(1))
    => db = before
----------------------------------------------------------------------------
(* update on table T: one call; and two calls on the same record, the     *)
(* second made right after the first, before any event of it is handled.  *)

UpdateFields == [id : Opt(Keys), a : Opt(FieldValues), b : Opt(FieldValues)]

UpdateInit ==
    /\ ReadIdle
    /\ db \in [TableNames -> WriteTables]
    /\ db["U"] = {}
    /\ calls = [c \in CallIds |-> NoCall]
    /\ txs = <<>>
    /\ before = db
    /\ log = <<>>

Update ==
    /\ calls[1].op = "none"
    /\ \E id \in Keys, fields \in UpdateFields : update(1, "T", id, fields)

UpdateNext ==
    \/ Update
    \/ Success
    \/ Failure
    \/ Complete
    \/ AbortOnCommit

SpecUpdate == UpdateInit /\ [][UpdateNext]_vars

\* Data that leaves the key alone.
PlainFields == {f \in UpdateFields : f.id = {}}

UpdateFirst ==
    /\ calls[1].op = "none"
    /\ \E id \in Keys, fields \in PlainFields : update(1, "T", id, fields)

UpdateSecond ==
    /\ calls[1].op = "update" /\ calls[2].op = "none"
    /\ Len(txs) = 1 /\ txs[1].state = "queued"
    /\ \E fields \in PlainFields : update(2, "T", calls[1].id, fields)

UpdatePairNext ==
    \/ UpdateFirst
    \/ UpdateSecond
    \/ Success
    \/ Failure
    \/ Complete
    \/ AbortOnCommit

SpecUpdatePair == UpdateInit /\ [][UpdatePairNext]_vars

\* Record r with the fields of f added or replaced.
Merged(r, f) ==
    [id |-> IF f.id = {} THEN r.id ELSE Get(f.id),
     a |-> IF f.a = {} THEN r.a ELSE f.a,
     b |-> IF f.b = {} THEN r.b ELSE f.b]

\* The record call c names, as it was before any call (an optional value).
Old(c) == {r \in before["T"] : r.id = calls[c].id}
ResolvedTrue(c) == calls[c].promise.state = "resolved" /\ calls[c].promise.value = <<TRUE>>

\* C25: an update of an existing record stores that record with the fields
\* of data added or replaced and its other fields kept, and resolves true
\* only when its transaction has completed; an update of a key the table
\* does not hold is rejected, writes nothing, and stays rejected when its
\* transaction completes.
C25_Update ==
    calls[1].op = "update"
    => /\ calls[1].promise.state = "resolved"
          => /\ ResolvedTrue(1)
             /\ txs[1].state = "committed"
             /\ Old(1) # {}
             /\ Merged(Get(Old(1)), calls[1].data) \in db["T"]
       /\ Old(1) = {}
          => /\ TxFinished(1) => calls[1].promise.state = "rejected"
             /\ db = before
             /\ \A r \in txs[1].work : r \in before["T"]

C25_Witness ==
    /\ calls[1].op = "update" /\ ResolvedTrue(1)
    /\ \E r \in Old(1) :
          /\ r.b # {} /\ calls[1].data.b = {}
          /\ calls[1].data.a # {} /\ calls[1].data.a # r.a
          /\ calls[1].data.id = {}

\* The two calls update the same record, which exists, with disjoint sets
\* of fields other than the key.
Disjoint ==
    /\ calls[1].op = "update" /\ calls[2].op = "update"
    /\ calls[1].id = calls[2].id
    /\ Old(1) # {}
    /\ calls[1].data.id = {} /\ calls[2].data.id = {}
    /\ calls[1].data.a = {} \/ calls[2].data.a = {}
    /\ calls[1].data.b = {} \/ calls[2].data.b = {}

\* C29: two updates of one record with disjoint fields, neither waiting for
\* the other, lose no write: when both have resolved the record carries
\* the fields of both.
C29_NoLostUpdate ==
    (Disjoint /\ ResolvedTrue(1) /\ ResolvedTrue(2))
    => Merged(Merged(Get(Old(1)), calls[1].data), calls[2].data) \in db["T"]

C29_Witness ==
    /\ Disjoint /\ ResolvedTrue(1) /\ ResolvedTrue(2)
    /\ Len(log) >= 2 /\ log[1].ev = "issue" /\ log[2].ev = "issue"
    /\ \E r \in Old(1) :
          /\ calls[1].data.a # {} /\ calls[1].data.a # r.a
          /\ calls[2].data.b # {} /\ calls[2].data.b # r.b
----------------------------------------------------------------------------
(* importData(json, overwrite): json names the tables T and U and the name *)
(* X, which is no table.                                                   *)

ImportKeys == TableNames \cup {"X"}
OneRecord == [id |-> 1, a |-> {1}, b |-> {}]

\* The arrays json may hold under a key.
ImportLists(key) ==
    IF key = "T" THEN Lists(PlainRecords)
    ELSE IF key = "U" THEN {<<>>, <<{OneRecord}>>}
    ELSE {<<>>}

\* json as the sequence Object.keys(json) walks: entries <<key, array>>
\* with distinct keys.
JsonEntries == UNION {{<<key, list>> : list \in ImportLists(key)} : key \in ImportKeys}
Jsons ==
    {j \in UNION {[1..n -> JsonEntries] : n \in 0..Cardinality(ImportKeys)} :
        \A k, l \in 1..Len(j) : j[k][1] = j[l][1] => k = l}

ImportInit ==
    /\ ReadIdle
    /\ db \in [TableNames -> PlainTables]
    /\ db["U"] \in {{}, {[id |-> 2, a |-> {2}, b |-> {}]}}
    /\ calls = [c \in CallIds |-> NoCall]
    /\ txs = <<>>
    /\ before = db
    /\ log = <<>>

ImportData ==
    /\ calls[1].op = "none"
    /\ \E json \in Jsons, overwrite \in BOOLEAN : importData(1, json, overwrite)

ImportNext ==
    \/ ImportData
    \/ Success
    \/ Failure
    \/ Complete
    \/ AbortOnCommit

SpecImport == ImportInit /\ [][ImportNext]_vars

\* The array json holds under table t (none when json does not name t), and
\* the records in it.
Named(t) == {k \in 1..Len(calls[1].data) : calls[1].data[k][1] = t}
RecordsOf(list) == {Get(list[k]) : k \in {l \in 1..Len(list) : list[l] # {}}}
Imported(t) == UNION {RecordsOf(calls[1].data[k][2]) : k \in Named(t)}
ImportResolved == calls[1].op = "importData" /\ calls[1].promise.state = "resolved"

\* C26: when importData(json, true) has resolved every table json names
\* holds exactly the records of json[table]; when importData(json, false)
\* has resolved every old record is still there next to the new ones; either
\* way a table json does not name is as it was, and a key that names no
\* table does not fail the call.
C26_Import ==
    ImportResolved
    => \A t \in TableNames :
          /\ (Named(t) # {} /\ calls[1].overwrite) => db[t] = Imported(t)
          /\ (Named(t) # {} /\ ~calls[1].overwrite) => db[t] = before[t] \cup Imported(t)
          /\ Named(t) = {} => db[t] = before[t]

\* C30: when importData(json, true) is rejected every table holds what it
\* held before the call, and at no moment does a table named in json hold
\* anything but its old or its new records.
C30_Atomic ==
    (calls[1].op = "importData" /\ calls[1].overwrite)
    => /\ \A t \in TableNames :
             db[t] \in IF Named(t) = {} THEN {before[t]} ELSE {before[t], Imported(t)}
       /\ calls[1].promise.state = "rejected" => db = before
----------------------------------------------------------------------------
(* search next to calls that write the same table (add, put, update,       *)
(* remove made by other callers).                                          *)

\* The read-only transaction of search has run a request and has not
\* finished: until it finishes no read-write transaction on the table runs.
RunningNever == FALSE
Running == tsn = "active" /\ resultsArray # <<>>

ConcurrentInputs ==
    {a \in SearchInputs : /\ a.index = "words"
                          /\ a.query.type = "string"
                          /\ Len(a.query.chars) \in 1..3
                          /\ \A k \in 1..Len(a.query.chars) : a.query.chars[k] # "C"}

ConcurrentSearch ==
    /\ tsn = "none" /\ args = NoArgs /\ promise.state = "pending"
    /\ \E a \in ConcurrentInputs : search(a)

\* After the search is called the transaction of another call commits: a
\* record is stored (add, put, update) or deleted (remove).  It runs before
\* the transaction of search starts, which then sees what it left, or
\* after that transaction has finished.
ConcurrentWrite ==
    /\ Searched
    /\ ~Running
    /\ Cardinality(Events("write")) < MaxWrites
    /\ \E r \in SearchRecords, stored \in BOOLEAN :
          table' = {q \in table : q.id # r.id} \cup (IF stored THEN {r} ELSE {})
    /\ table' # table
    /\ store' = table'
    /\ before' = IF Finished THEN before ELSE table'
    /\ log' = Append(log, Ev("write", 0, 0))
    /\ UNCHANGED <<tsn, requests, promise>>
    /\ UNCHANGED searchVars
    /\ UNCHANGED queryVars
    /\ UNCHANGED writeVars

ConcurrentNext ==
    \/ ConcurrentSearch
    \/ ConcurrentWrite
    \/ KeysSuccess
    \/ ObjectSuccess
    \/ SearchRequestError
    \/ Commit

SpecConcurrent == SearchInit /\ [][ConcurrentNext]_vars

\* search evaluated on one state of the table.
SearchOn(contents) ==
    IF args.op = {"or"}
    THEN {r \in contents : \E w \in Tokens : w \in r.words}
    ELSE {r \in contents : \A w \in Tokens : w \in r.words}

\* C28: every lookup and every fetch of a search is placed on the one
\* read-only transaction of the call while it is active, and whatever the
\* other calls write and whenever, the search resolves with the records
\* that match in one state of the table, the one its transaction ran on,
\* none of them missing.
C28_Snapshot ==
    /\ requests # <<>> => tsn = "active" /\ Cardinality(Events("transaction")) = 1
    /\ Running => table = before /\ store = before
    /\ (Searched /\ Len(words) >= 1 /\ Resolved)
       => /\ Returned = SearchOn(before)
          /\ NoneMissing

\* A search of two tokens has resolved with a record and left another out;
\* the table was written after the call and before its transaction ran.
C28_Witness ==
    /\ Searched /\ Len(words) = 2 /\ Resolved
    /\ Returned # {} /\ Returned # before
    /\ \E w \in Events("write"), k \in Events("keys") : w < k

\* The records of table T stored under another key than the one the first
\* update names.
Others(contents) == {r \in contents : r.id # calls[1].id}

\* C31: update(table, id, data) creates, changes and deletes no record but
\* the one stored under id, whatever data holds, the key field with
\* another value included: the other records of the table, and the other
\* tables, are at every moment as they were before the call.
C31_Frame ==
    calls[1].op = "update"
    => /\ Others(db["T"]) = Others(before["T"])
       /\ db["U"] = before["U"]
====
